---------------------------- MODULE Spec2Model ----------------------------
(***************************************************************************)
(* diffreducer (src/main.rs): reads a unified diff from standard input,    *)
(* parses it into FileDiff / Chunk / ChunkLines, drops the Changed blocks  *)
(* that are explained by the REPLACEMENTS table, and prints what is left.  *)
(* Text is modelled by TLA+ strings, character by character.               *)
(***************************************************************************)
EXTENDS Integers, Sequences, FiniteSets, TLC

VARIABLES input,        \* main: the text read from standard input
          pc,           \* main: the stage of the run
          parsed,       \* main: `files` as bound by the parse stage
          files,        \* main: `files` as rebound by the filter stage
          stdout,       \* what println! has written so far
          printed,      \* number of files the output loop has written
          removed_text, \* fold at main.rs:418: the initial accumulator
          current,      \* fold at main.rs:418: the accumulator
          rule          \* fold at main.rs:418: index of the next rule

vars == <<input, pc, parsed, files, stdout, printed, removed_text, current, rule>>

-----------------------------------------------------------------------------
(* Text helpers *)

NL == "\n"

CR == "\r"

CharAt(s, i) == SubSeq(s, i, i)

From(s, p) == SubSeq(s, p, Len(s))

StartsWithAt(s, p, prefix) ==
    /\ p + Len(prefix) - 1 <= Len(s)
    /\ SubSeq(s, p, p + Len(prefix) - 1) = prefix

Min(set) == CHOOSE i \in set : \A j \in set : i <= j

Max(set) == CHOOSE i \in set : \A j \in set : i >= j

\* Index of the first occurrence of `needle` in s at or after p, 0 if none.
Find(s, p, needle) ==
    LET n    == Len(needle)
        hits == {i \in p..(Len(s) - n + 1) : SubSeq(s, i, i + n - 1) = needle}
    IN IF hits = {} THEN 0 ELSE Min(hits)

RECURSIVE Concat(_)
Concat(ss) == IF ss = <<>> THEN "" ELSE Head(ss) \o Concat(Tail(ss))

\* [T]::join(" ")
RECURSIVE join(_, _)
join(ss, sep) ==
    IF ss = <<>> THEN ""
    ELSE IF Len(ss) = 1 THEN ss[1]
    ELSE ss[1] \o sep \o join(Tail(ss), sep)

\* str::replace: every non-overlapping occurrence, left to right.
RECURSIVE replace(_, _, _)
replace(s, before, after) ==
    LET q == Find(s, 1, before) IN
    IF q = 0 THEN s
    ELSE SubSeq(s, 1, q - 1) \o after
         \o replace(From(s, q + Len(before)), before, after)

\* str::lines: split at "\n" or "\r\n"; a final line ending is optional.
RECURSIVE lines(_)
lines(s) ==
    IF s = "" THEN <<>>
    ELSE LET e == Find(s, 1, NL) IN
         IF e = 0 THEN <<s>>
         ELSE LET l == SubSeq(s, 1, e - 1) IN
              << IF Len(l) > 0 /\ CharAt(l, Len(l)) = CR
                 THEN SubSeq(l, 1, Len(l) - 1) ELSE l >>
              \o lines(From(s, e + 1))

-----------------------------------------------------------------------------
(* The three regular expressions *)

HexDigits == {"0", "1", "2", "3", "4", "5", "6", "7", "8", "9",
              "a", "b", "c", "d", "e", "f"}

Digits == {"0", "1", "2", "3", "4", "5", "6", "7", "8", "9"}

Whitespace == {" ", "\t", NL, CR, "\f"}

AllIn(s, set) == \A i \in 1..Len(s) : CharAt(s, i) \in set

\* `.+\n` at p: the index of the "\n" that ends the match, 0 if no match.
DotPlusNl(s, p) ==
    LET e == Find(s, p, NL) IN IF e > p THEN e ELSE 0

\* `diff --git a/.+ b/.+\n` at p: index of the closing "\n", 0 if no match.
DiffGitLine(s, p) ==
    LET e == Find(s, p, NL) IN
    IF /\ StartsWithAt(s, p, "diff --git a/")
       /\ e # 0
       /\ \E q \in (p + 14)..(e - 4) : SubSeq(s, q, q + 2) = " b/"
    THEN e ELSE 0

\* `index [0-9a-f]+..[0-9a-f]+ \d+\n` at p.
IndexLine(s, p) ==
    LET e == Find(s, p, NL)
        c == SubSeq(s, p + 6, e - 1)
    IN
    IF /\ StartsWithAt(s, p, "index ")
       /\ e # 0
       /\ \E a \in 1..Len(c) : \E b \in 1..Len(c) :
            /\ a + 2 + b + 1 < Len(c)
            /\ AllIn(SubSeq(c, 1, a), HexDigits)
            /\ AllIn(SubSeq(c, a + 3, a + 2 + b), HexDigits)
            /\ CharAt(c, a + 3 + b) = " "
            /\ AllIn(From(c, a + 4 + b), Digits)
    THEN e ELSE 0

\* `--- .+\n[+]{3} .+\n` at p.
PathLines(s, p) ==
    IF ~StartsWithAt(s, p, "--- ") THEN 0
    ELSE LET e == DotPlusNl(s, p + 4) IN
         IF e = 0 \/ ~StartsWithAt(s, e + 1, "+++ ") THEN 0
         ELSE DotPlusNl(s, e + 5)

\* file_header_re at a line start p: index of the last character matched.
file_header_re(s, p) ==
    LET d == DiffGitLine(s, p)
        i == IF d = 0 THEN 0 ELSE IndexLine(s, d + 1)
        g == IF i = 0 THEN 0 ELSE PathLines(s, i + 1)
    IN IF g # 0 THEN g ELSE PathLines(s, p)

\* file_header_re.find_iter(s) from line start p: the matches, in order, as
\* records of the first and the last index matched.
RECURSIVE file_header_matches(_, _)
file_header_matches(s, p) ==
    IF p > Len(s) THEN <<>>
    ELSE LET m == file_header_re(s, p) IN
         IF m # 0 THEN <<[start |-> p, end |-> m]>> \o file_header_matches(s, m + 1)
         ELSE LET e == Find(s, p, NL) IN
              IF e = 0 THEN <<>> ELSE file_header_matches(s, e + 1)

\* chunk_header_re.find_iter(s) from p; the pattern `@@ .+\n` is not anchored.
RECURSIVE chunk_header_matches(_, _)
chunk_header_matches(s, p) ==
    LET q == Find(s, p, "@@ ") IN
    IF q = 0 THEN <<>>
    ELSE LET m == DotPlusNl(s, q + 3) IN
         IF m # 0 THEN <<[start |-> q, end |-> m]>> \o chunk_header_matches(s, m + 1)
         ELSE chunk_header_matches(s, q + 1)

IsWhitespaceAt(s, i) == CharAt(s, i) \in Whitespace

\* Last index of the run of whitespace that starts at index i.
WhitespaceRunEnd(s, i) ==
    Max({e \in i..Len(s) : \A k \in i..e : IsWhitespaceAt(s, k)})

\* multiple_whitespace_re.replace_all(s, " "): every run of two or more
\* whitespace characters, leftmost and longest first, becomes one space.
RECURSIVE multiple_whitespace_re(_)
multiple_whitespace_re(s) ==
    LET starts == {i \in 1..(Len(s) - 1) :
                       IsWhitespaceAt(s, i) /\ IsWhitespaceAt(s, i + 1)}
    IN IF starts = {} THEN s
       ELSE SubSeq(s, 1, Min(starts) - 1) \o " "
            \o multiple_whitespace_re(From(s, WhitespaceRunEnd(s, Min(starts)) + 1))

-----------------------------------------------------------------------------
(* The replacement table *)

\* The table with the two short tokens ET_GESTURE_TAP and ET_SCROLL listed
\* first, ahead of the longer tokens that start with them.
REPLACEMENTS_ShortFirst == <<
    [before |-> "ET_GESTURE_TAP", after |-> "EventType::kGestureTap"],
    [before |-> "ET_SCROLL", after |-> "EventType::kScroll"],
    [before |-> "ET_UNKNOWN", after |-> "EventType::kUnknown"],
    [before |-> "ET_MOUSE_PRESSED", after |-> "EventType::kMousePressed"],
    [before |-> "ET_MOUSE_DRAGGED", after |-> "EventType::kMouseDragged"],
    [before |-> "ET_MOUSE_RELEASED", after |-> "EventType::kMouseReleased"],
    [before |-> "ET_MOUSE_MOVED", after |-> "EventType::kMouseMoved"],
    [before |-> "ET_MOUSE_ENTERED", after |-> "EventType::kMouseEntered"],
    [before |-> "ET_MOUSE_EXITED", after |-> "EventType::kMouseExited"],
    [before |-> "ET_KEY_PRESSED", after |-> "EventType::kKeyPressed"],
    [before |-> "ET_KEY_RELEASED", after |-> "EventType::kKeyReleased"],
    [before |-> "ET_MOUSEWHEEL", after |-> "EventType::kMousewheel"],
    [before |-> "ET_MOUSE_CAPTURE_CHANGED", after |-> "EventType::kMouseCaptureChanged"],
    [before |-> "ET_TOUCH_RELEASED", after |-> "EventType::kTouchReleased"],
    [before |-> "ET_TOUCH_PRESSED", after |-> "EventType::kTouchPressed"],
    [before |-> "ET_TOUCH_MOVED", after |-> "EventType::kTouchMoved"],
    [before |-> "ET_TOUCH_CANCELLED", after |-> "EventType::kTouchCancelled"],
    [before |-> "ET_DROP_TARGET_EVENT", after |-> "EventType::kDropTargetEvent"],
    [before |-> "ET_GESTURE_SCROLL_BEGIN", after |-> "EventType::kGestureScrollBegin"],
    [before |-> "ET_GESTURE_TYPE_START", after |-> "EventType::kGestureTypeStart"],
    [before |-> "ET_GESTURE_SCROLL_END", after |-> "EventType::kGestureScrollEnd"],
    [before |-> "ET_GESTURE_SCROLL_UPDATE", after |-> "EventType::kGestureScrollUpdate"],
    [before |-> "ET_GESTURE_TAP_DOWN", after |-> "EventType::kGestureTapDown"],
    [before |-> "ET_GESTURE_TAP_CANCEL", after |-> "EventType::kGestureTapCancel"],
    [before |-> "ET_GESTURE_TAP_UNCONFIRMED", after |-> "EventType::kGestureTapUnconfirmed"],
    [before |-> "ET_GESTURE_DOUBLE_TAP", after |-> "EventType::kGestureDoubleTap"],
    [before |-> "ET_GESTURE_BEGIN", after |-> "EventType::kGestureBegin"],
    [before |-> "ET_GESTURE_END", after |-> "EventType::kGestureEnd"],
    [before |-> "ET_GESTURE_TWO_FINGER_TAP", after |-> "EventType::kGestureTwoFingerTap"],
    [before |-> "ET_GESTURE_PINCH_BEGIN", after |-> "EventType::kGesturePinchBegin"],
    [before |-> "ET_GESTURE_PINCH_END", after |-> "EventType::kGesturePinchEnd"],
    [before |-> "ET_GESTURE_PINCH_UPDATE", after |-> "EventType::kGesturePinchUpdate"],
    [before |-> "ET_GESTURE_SHORT_PRESS", after |-> "EventType::kGestureShortPress"],
    [before |-> "ET_GESTURE_LONG_PRESS", after |-> "EventType::kGestureLongPress"],
    [before |-> "ET_GESTURE_LONG_TAP", after |-> "EventType::kGestureLongTap"],
    [before |-> "ET_GESTURE_SWIPE", after |-> "EventType::kGestureSwipe"],
    [before |-> "ET_GESTURE_SHOW_PRESS", after |-> "EventType::kGestureShowPress"],
    [before |-> "ET_SCROLL_FLING_START", after |-> "EventType::kScrollFlingStart"],
    [before |-> "ET_SCROLL_FLING_CANCEL", after |-> "EventType::kScrollFlingCancel"],
    [before |-> "ET_GESTURE_TYPE_END", after |-> "EventType::kGestureTypeEnd"],
    [before |-> "ET_CANCEL_MODE", after |-> "EventType::kCancelMode"],
    [before |-> "ET_UMA_DATA", after |-> "EventType::kUmaData"],
    [before |-> "ET_LAST", after |-> "EventType::kLast"] >>

REPLACEMENTS == <<
    [before |-> "ET_UNKNOWN", after |-> "EventType::kUnknown"],
    [before |-> "ET_MOUSE_PRESSED", after |-> "EventType::kMousePressed"],
    [before |-> "ET_MOUSE_DRAGGED", after |-> "EventType::kMouseDragged"],
    [before |-> "ET_MOUSE_RELEASED", after |-> "EventType::kMouseReleased"],
    [before |-> "ET_MOUSE_MOVED", after |-> "EventType::kMouseMoved"],
    [before |-> "ET_MOUSE_ENTERED", after |-> "EventType::kMouseEntered"],
    [before |-> "ET_MOUSE_EXITED", after |-> "EventType::kMouseExited"],
    [before |-> "ET_KEY_PRESSED", after |-> "EventType::kKeyPressed"],
    [before |-> "ET_KEY_RELEASED", after |-> "EventType::kKeyReleased"],
    [before |-> "ET_MOUSEWHEEL", after |-> "EventType::kMousewheel"],
    [before |-> "ET_MOUSE_CAPTURE_CHANGED", after |-> "EventType::kMouseCaptureChanged"],
    [before |-> "ET_TOUCH_RELEASED", after |-> "EventType::kTouchReleased"],
    [before |-> "ET_TOUCH_PRESSED", after |-> "EventType::kTouchPressed"],
    [before |-> "ET_TOUCH_MOVED", after |-> "EventType::kTouchMoved"],
    [before |-> "ET_TOUCH_CANCELLED", after |-> "EventType::kTouchCancelled"],
    [before |-> "ET_DROP_TARGET_EVENT", after |-> "EventType::kDropTargetEvent"],
    [before |-> "ET_GESTURE_SCROLL_BEGIN", after |-> "EventType::kGestureScrollBegin"],
    [before |-> "ET_GESTURE_TYPE_START", after |-> "EventType::kGestureTypeStart"],
    [before |-> "ET_GESTURE_SCROLL_END", after |-> "EventType::kGestureScrollEnd"],
    [before |-> "ET_GESTURE_SCROLL_UPDATE", after |-> "EventType::kGestureScrollUpdate"],
    [before |-> "ET_GESTURE_TAP_DOWN", after |-> "EventType::kGestureTapDown"],
    [before |-> "ET_GESTURE_TAP_CANCEL", after |-> "EventType::kGestureTapCancel"],
    [before |-> "ET_GESTURE_TAP_UNCONFIRMED", after |-> "EventType::kGestureTapUnconfirmed"],
    [before |-> "ET_GESTURE_TAP", after |-> "EventType::kGestureTap"],
    [before |-> "ET_GESTURE_DOUBLE_TAP", after |-> "EventType::kGestureDoubleTap"],
    [before |-> "ET_GESTURE_BEGIN", after |-> "EventType::kGestureBegin"],
    [before |-> "ET_GESTURE_END", after |-> "EventType::kGestureEnd"],
    [before |-> "ET_GESTURE_TWO_FINGER_TAP", after |-> "EventType::kGestureTwoFingerTap"],
    [before |-> "ET_GESTURE_PINCH_BEGIN", after |-> "EventType::kGesturePinchBegin"],
    [before |-> "ET_GESTURE_PINCH_END", after |-> "EventType::kGesturePinchEnd"],
    [before |-> "ET_GESTURE_PINCH_UPDATE", after |-> "EventType::kGesturePinchUpdate"],
    [before |-> "ET_GESTURE_SHORT_PRESS", after |-> "EventType::kGestureShortPress"],
    [before |-> "ET_GESTURE_LONG_PRESS", after |-> "EventType::kGestureLongPress"],
    [before |-> "ET_GESTURE_LONG_TAP", after |-> "EventType::kGestureLongTap"],
    [before |-> "ET_GESTURE_SWIPE", after |-> "EventType::kGestureSwipe"],
    [before |-> "ET_GESTURE_SHOW_PRESS", after |-> "EventType::kGestureShowPress"],
    [before |-> "ET_SCROLL_FLING_START", after |-> "EventType::kScrollFlingStart"],
    [before |-> "ET_SCROLL_FLING_CANCEL", after |-> "EventType::kScrollFlingCancel"],
    [before |-> "ET_SCROLL", after |-> "EventType::kScroll"],
    [before |-> "ET_GESTURE_TYPE_END", after |-> "EventType::kGestureTypeEnd"],
    [before |-> "ET_CANCEL_MODE", after |-> "EventType::kCancelMode"],
    [before |-> "ET_UMA_DATA", after |-> "EventType::kUmaData"],
    [before |-> "ET_LAST", after |-> "EventType::kLast"] >>

\* REPLACEMENTS.iter().fold(text, |current, r| current.replace(r.before, r.after))
\* from rule number i on.  No rule has an empty `before`, so an empty text
\* stays empty whatever rules are left.
RECURSIVE fold_replacements(_, _)
fold_replacements(text, i) ==
    IF i > Len(REPLACEMENTS) \/ text = "" THEN text
    ELSE fold_replacements(
             replace(text, REPLACEMENTS[i].before, REPLACEMENTS[i].after), i + 1)

\* The whole table applied to a text.
transformed_text(text) == fold_replacements(text, 1)

-----------------------------------------------------------------------------
(* The parse stage *)

\* enum ChunkLines
Context(ls) == [kind |-> "Context", lines |-> ls]

Changed(removed, added) == [kind |-> "Changed", removed |-> removed, added |-> added]

\* A panic reached while the block is built: the run unwinds, the tree is
\* never used.
Panic == [kind |-> "Panic"]

\* line.split_at(1)
split_at_1(line) == [prefix |-> SubSeq(line, 1, 1), line |-> From(line, 2)]

RECURSIVE split_lines(_)
split_lines(ls) ==
    IF ls = <<>> THEN <<>> ELSE <<split_at_1(Head(ls))>> \o split_lines(Tail(ls))

\* The predicate given to chunk_by.
same_block(a, b) == a = b \/ (a = "-" /\ b = "+")

\* Last index of the run of tagged lines that starts at index i.
RECURSIVE run_end(_, _)
run_end(tl, i) ==
    IF i < Len(tl) /\ same_block(tl[i].prefix, tl[i + 1].prefix)
    THEN run_end(tl, i + 1) ELSE i

\* slice::chunk_by
RECURSIVE chunk_by(_)
chunk_by(tl) ==
    IF tl = <<>> THEN <<>>
    ELSE LET n == run_end(tl, 1) IN
         <<SubSeq(tl, 1, n)>> \o chunk_by(SubSeq(tl, n + 1, Len(tl)))

RECURSIVE line_texts(_)
line_texts(tl) ==
    IF tl = <<>> THEN <<>> ELSE <<Head(tl).line>> \o line_texts(Tail(tl))

\* take_while(prefix == "-").count()
RECURSIVE removed_lines_count(_)
removed_lines_count(tl) ==
    IF tl # <<>> /\ Head(tl).prefix = "-" THEN 1 + removed_lines_count(Tail(tl))
    ELSE 0

\* A match arm that takes every other pair of prefixes for context lines
\* instead of panicking.
chunk_lines_of_Lenient(group) ==
    LET first == group[1].prefix
        last  == group[Len(group)].prefix
    IN IF <<first, last>> \in {<<"+", "+">>, <<"-", "+">>, <<"-", "-">>}
       THEN LET n == removed_lines_count(group) IN
            Changed(line_texts(SubSeq(group, 1, n)),
                    line_texts(SubSeq(group, n + 1, Len(group))))
       ELSE Context(line_texts(group))

\* The match on (first prefix, last prefix) of one group.
chunk_lines_of(group) ==
    LET first == group[1].prefix
        last  == group[Len(group)].prefix
    IN IF first = " " /\ last = " " THEN Context(line_texts(group))
       ELSE IF <<first, last>> \in {<<"+", "+">>, <<"-", "+">>, <<"-", "-">>}
       THEN LET n == removed_lines_count(group) IN
            Changed(line_texts(SubSeq(group, 1, n)),
                    line_texts(SubSeq(group, n + 1, Len(group))))
       ELSE Panic

RECURSIVE blocks_of(_)
blocks_of(groups) ==
    IF groups = <<>> THEN <<>>
    ELSE <<chunk_lines_of(Head(groups))>> \o blocks_of(Tail(groups))

\* chunk_lineses for one chunk_text; split_at(1) panics on an empty line.
chunk_lineses(chunk_text) ==
    LET ls == lines(chunk_text) IN
    IF \E i \in 1..Len(ls) : ls[i] = "" THEN <<Panic>>
    ELSE blocks_of(chunk_by(split_lines(ls)))

\* chunk_text of chunk number i: from the end of its header to the start of
\* the next chunk header, or to the end of chunks_text for the last one.
chunk_text_of(chunks_text, chunk_headers, i) ==
    IF i < Len(chunk_headers)
    THEN SubSeq(chunks_text, chunk_headers[i].end + 1, chunk_headers[i + 1].start - 1)
    ELSE From(chunks_text, chunk_headers[i].end + 1)

\* The chunks of one chunks_text, from chunk header number i on.
RECURSIVE chunks_from(_, _, _)
chunks_from(chunks_text, chunk_headers, i) ==
    IF i > Len(chunk_headers) THEN <<>>
    ELSE <<[header  |-> SubSeq(chunks_text, chunk_headers[i].start,
                               chunk_headers[i].end),
            lineses |-> chunk_lineses(
                            chunk_text_of(chunks_text, chunk_headers, i))]>>
         \o chunks_from(chunks_text, chunk_headers, i + 1)

\* chunks_text of file number i: from the end of its header to the start of
\* the next file header; for the last file, from the START of its own header
\* to the end of the input.
chunks_text_of(text, file_headers, i) ==
    IF i < Len(file_headers)
    THEN SubSeq(text, file_headers[i].end + 1, file_headers[i + 1].start - 1)
    ELSE From(text, file_headers[i].start)

\* The FileDiffs of the input, from file header number i on.
RECURSIVE files_from(_, _, _)
files_from(text, file_headers, i) ==
    IF i > Len(file_headers) THEN <<>>
    ELSE <<[header |-> SubSeq(text, file_headers[i].start, file_headers[i].end),
            chunks |-> chunks_from(
                           chunks_text_of(text, file_headers, i),
                           chunk_header_matches(
                               chunks_text_of(text, file_headers, i), 1),
                           1)]>>
         \o files_from(text, file_headers, i + 1)

parse(text) == files_from(text, file_header_matches(text, 1), 1)

panicked(fs) ==
    \E i \in 1..Len(fs) : \E j \in 1..Len(fs[i].chunks) :
        \E k \in 1..Len(fs[i].chunks[j].lineses) :
            fs[i].chunks[j].lineses[k].kind = "Panic"

-----------------------------------------------------------------------------
(* Display *)

\* writeln!(f, "{prefix}{line}") for every line
RECURSIVE write_lines(_, _)
write_lines(prefix, ls) ==
    IF ls = <<>> THEN ""
    ELSE prefix \o Head(ls) \o NL \o write_lines(prefix, Tail(ls))

DisplayChanged(changed) ==
    write_lines("-", changed.removed) \o write_lines("+", changed.added)

DisplayChunkLines(chunk_lines) ==
    IF chunk_lines.kind = "Context" THEN write_lines("", chunk_lines.lines)
    ELSE DisplayChanged(chunk_lines)

RECURSIVE DisplayLineses(_)
DisplayLineses(lineses) ==
    IF lineses = <<>> THEN ""
    ELSE DisplayChunkLines(Head(lineses)) \o DisplayLineses(Tail(lineses))

DisplayChunk(chunk) == chunk.header \o DisplayLineses(chunk.lineses)

RECURSIVE DisplayChunks(_)
DisplayChunks(chunks) ==
    IF chunks = <<>> THEN ""
    ELSE DisplayChunk(Head(chunks)) \o DisplayChunks(Tail(chunks))

DisplayFileDiff(file) == file.header \o DisplayChunks(file.chunks)

\* println!("{file}")
println(file) == DisplayFileDiff(file) \o NL

\* The whole output loop over a tree.
RECURSIVE print_all(_)
print_all(fs) ==
    IF fs = <<>> THEN "" ELSE println(Head(fs)) \o print_all(Tail(fs))

-----------------------------------------------------------------------------
(* The filter stage *)

\* multiple_whitespace_re.replace_all(&lines.join(" "), " ").replace("( ", "(")
canonical_text(ls) == replace(multiple_whitespace_re(join(ls, " ")), "( ", "(")

\* The decision with `&&` in place of `||` in the emptiness test.
keep_changed_BothEmpty(changed) ==
    IF changed.removed = <<>> /\ changed.added = <<>> THEN TRUE
    ELSE transformed_text(canonical_text(changed.removed))
             # canonical_text(changed.added)

\* The decision for one Changed block: TRUE for Some(block), FALSE for None.
keep_changed(changed) ==
    IF changed.removed = <<>> \/ changed.added = <<>> THEN TRUE
    ELSE transformed_text(canonical_text(changed.removed))
             # canonical_text(changed.added)

\* The closure given to the innermost filter_map.
keep_chunk_lines(chunk_lines) ==
    IF chunk_lines.kind = "Changed" THEN keep_changed(chunk_lines) ELSE TRUE

\* lineses.into_iter().filter_map(..).collect()
RECURSIVE new_lineses(_)
new_lineses(lineses) ==
    IF lineses = <<>> THEN <<>>
    ELSE (IF keep_chunk_lines(Head(lineses)) THEN <<Head(lineses)>> ELSE <<>>)
         \o new_lineses(Tail(lineses))

\* A retention test that keeps a hunk as soon as any block is left.
any_changed_AnyBlock(lineses) == lineses # <<>>

\* new_lineses.iter().any(|chunk_lines| matches Changed)
any_changed(lineses) ==
    \E i \in 1..Len(lineses) : lineses[i].kind = "Changed"

\* The closure given to the middle filter_map: Some(chunk) as a sequence of
\* one chunk, None as the empty sequence.
filter_chunk(chunk) ==
    IF any_changed(new_lineses(chunk.lineses))
    THEN <<[header |-> chunk.header, lineses |-> new_lineses(chunk.lineses)]>>
    ELSE <<>>

RECURSIVE filter_chunks(_)
filter_chunks(chunks) ==
    IF chunks = <<>> THEN <<>>
    ELSE filter_chunk(Head(chunks)) \o filter_chunks(Tail(chunks))

\* The closure given to the outer filter_map.
filter_file(file) ==
    IF filter_chunks(file.chunks) = <<>> THEN <<>>
    ELSE <<[header |-> file.header, chunks |-> filter_chunks(file.chunks)]>>

RECURSIVE filter_files(_)
filter_files(fs) ==
    IF fs = <<>> THEN <<>>
    ELSE filter_file(Head(fs)) \o filter_files(Tail(fs))

-----------------------------------------------------------------------------
(* Inputs *)

\* Most pieces of text an input is made of.
MaxPieces == 4

FileHeader == "--- a/f\n+++ b/f\n"

GitFileHeader == "diff --git a/f b/f\nindex 1a..2b 100644\n--- a/f\n+++ b/f\n"

HunkHeader == "@@ -1,2 +1,2 @@\n"

ContextLine == " foo\n"

\* A reflowed call whose only change is a table substitution.
RenameOnly == "-x(\n-  ET_UNKNOWN);\n+x(EventType::kUnknown);\n"

IndentExample == "-  int x = ET_UNKNOWN;\n+int x = EventType::kUnknown;\n"

CommentExample == "-// a\n-// ET_UNKNOWN\n+// a EventType::kUnknown\n"

BlankAdded == "+\n"

Removed == "-old\n"

BadTag == "*bad\n"

NoNewlineMarker == "\\ No newline at end of file\n"

FileHeaders == {FileHeader, GitFileHeader}

BodyPieces == {ContextLine, RenameOnly, IndentExample, CommentExample,
               BlankAdded, Removed, BadTag, NoNewlineMarker}

Pieces == FileHeaders \cup {HunkHeader} \cup BodyPieces

\* Sequences of pieces that start with a file header followed by a hunk
\* header or by the next file header.
PieceSeqs ==
    UNION {{s \in [1..n -> Pieces] :
               /\ s[1] \in FileHeaders
               /\ n > 1 => s[2] \in FileHeaders \cup {HunkHeader}} :
           n \in 1..MaxPieces}

\* Every such text, with and without its final line break.
Inputs ==
    {""} \cup {Concat(s) : s \in PieceSeqs}
         \cup {SubSeq(Concat(s), 1, Len(Concat(s)) - 1) : s \in PieceSeqs}

-----------------------------------------------------------------------------
(* The run of main *)

Init ==
    /\ input = ""
    /\ pc = "start"
    /\ parsed = <<>>
    /\ files = <<>>
    /\ stdout = ""
    /\ printed = 0
    /\ removed_text = ""
    /\ current = ""
    /\ rule = 0

\* io::stdin().read_to_string(&mut input)
Read ==
    /\ pc = "start"
    /\ \E text \in Inputs : input' = text
    /\ pc' = "read"
    /\ UNCHANGED <<parsed, files, stdout, printed, removed_text, current, rule>>

\* The parse stage; a panic ends the run.
Parse ==
    /\ pc = "read"
    /\ LET fs == parse(input) IN
       IF panicked(fs)
       THEN pc' = "panicked" /\ UNCHANGED parsed
       ELSE pc' = "parsed" /\ parsed' = fs
    /\ UNCHANGED <<input, files, stdout, printed, removed_text, current, rule>>

\* The filter stage.
Filter ==
    /\ pc = "parsed"
    /\ files' = filter_files(parsed)
    /\ pc' = "filtered"
    /\ UNCHANGED <<input, parsed, stdout, printed, removed_text, current, rule>>

\* One iteration of `for file in files { println!("{file}"); }`
PrintFile ==
    /\ pc = "filtered"
    /\ printed < Len(files)
    /\ stdout' = stdout \o println(files[printed + 1])
    /\ printed' = printed + 1
    /\ UNCHANGED <<input, pc, parsed, files, removed_text, current, rule>>

\* Ok(())
Exit ==
    /\ pc = "filtered"
    /\ printed = Len(files)
    /\ pc' = "done"
    /\ UNCHANGED <<input, parsed, files, stdout, printed, removed_text, current, rule>>

Next == Read \/ Parse \/ Filter \/ PrintFile \/ Exit

Spec == Init /\ [][Next]_vars

-----------------------------------------------------------------------------
(* The fold over the table, one rule at a time *)

InitTable ==
    /\ input = ""
    /\ pc = "fold"
    /\ parsed = <<>>
    /\ files = <<>>
    /\ stdout = ""
    /\ printed = 0
    /\ removed_text \in {REPLACEMENTS[k].before : k \in 1..Len(REPLACEMENTS)}
    /\ current = removed_text
    /\ rule = 1

\* One step of the fold: |current, replacement| current.replace(before, after)
FoldStep ==
    /\ pc = "fold"
    /\ rule <= Len(REPLACEMENTS)
    /\ current' = replace(current, REPLACEMENTS[rule].before, REPLACEMENTS[rule].after)
    /\ rule' = rule + 1
    /\ UNCHANGED <<input, pc, parsed, files, stdout, printed, removed_text>>

NextTable == FoldStep

SpecTable == InitTable /\ [][NextTable]_vars

-----------------------------------------------------------------------------
(* Vocabulary of the properties *)

Filtered == pc \in {"filtered", "done"}

ChangePieces == {RenameOnly, IndentExample, CommentExample, BlankAdded, Removed}

HunkLinePieces == {ContextLine} \cup ChangePieces

\* A sequence of pieces laid out as a diff: file headers, hunk headers, and
\* hunk lines taken from `body`, every hunk line inside a hunk and every hunk
\* with at least one line.
LaidOutAsDiff(s, body) ==
    /\ s[1] \in FileHeaders
    /\ \A i \in 1..Len(s) : s[i] \in FileHeaders \cup {HunkHeader} \cup body
    /\ \A i \in 2..Len(s) : s[i] \in body => s[i - 1] \notin FileHeaders
    /\ \A i \in 1..Len(s) : s[i] = HunkHeader => (i < Len(s) /\ s[i + 1] \in body)

\* The syntactically valid diffs among the inputs: hunk lines tagged space,
\* "-" or "+"; the last hunk line with or without its line break.
ValidDiffs ==
    {Concat(s) : s \in {t \in PieceSeqs : LaidOutAsDiff(t, HunkLinePieces)}}
    \cup {SubSeq(Concat(s), 1, Len(Concat(s)) - 1) :
            s \in {t \in PieceSeqs : /\ LaidOutAsDiff(t, HunkLinePieces)
                                     /\ t[Len(t)] \in HunkLinePieces}}

\* Valid diffs that also hold the no-newline marker, each directly after a
\* context, removed or added line.
MarkedDiffs ==
    {Concat(s) : s \in {t \in PieceSeqs :
        /\ LaidOutAsDiff(t, HunkLinePieces \cup {NoNewlineMarker})
        /\ \E i \in 1..Len(t) : t[i] = NoNewlineMarker
        /\ \A i \in 2..Len(t) :
               t[i] = NoNewlineMarker => t[i - 1] \in HunkLinePieces}}

\* The chunk_text of every hunk of a text.
HunkContents(text) ==
    LET fh == file_header_matches(text, 1) IN
    UNION {{chunk_text_of(chunks_text_of(text, fh, i),
                          chunk_header_matches(chunks_text_of(text, fh, i), 1), j) :
              j \in 1..Len(chunk_header_matches(chunks_text_of(text, fh, i), 1))} :
           i \in 1..Len(fh)}

Tags == {" ", "-", "+", "\\"}

\* Some line of some hunk's content begins with a character that is no tag.
HasBadTag(text) ==
    \E t \in HunkContents(text) : \E k \in 1..Len(lines(t)) :
        lines(t)[k] # "" /\ CharAt(lines(t)[k], 1) \notin Tags

\* The per-block decision kept this Changed block.
Survives(chunk_lines) == chunk_lines.kind = "Changed" /\ keep_changed(chunk_lines)

HunkPresent(chunk) ==
    \E k \in 1..Len(chunk.lineses) : Survives(chunk.lineses[k])

FilePresent(file) == \E j \in 1..Len(file.chunks) : HunkPresent(file.chunks[j])

\* Number of files present among the first i parsed files.
FileRank(i) == Cardinality({a \in 1..i : FilePresent(parsed[a])})

\* Number of hunks present among the first j hunks of parsed file i.
HunkRank(i, j) == Cardinality({b \in 1..j : HunkPresent(parsed[i].chunks[b])})

IsPure(chunk_lines) ==
    chunk_lines.kind = "Changed"
    /\ (chunk_lines.removed = <<>> \/ chunk_lines.added = <<>>)

RECURSIVE PureBlocks(_)
PureBlocks(lineses) ==
    IF lineses = <<>> THEN <<>>
    ELSE (IF IsPure(Head(lineses)) THEN <<Head(lineses)>> ELSE <<>>)
         \o PureBlocks(Tail(lineses))

HasBlock(chunk, chunk_lines) ==
    \E k \in 1..Len(chunk.lineses) : chunk.lineses[k] = chunk_lines

InTree(fs, chunk_lines) ==
    \E i \in 1..Len(fs) : \E j \in 1..Len(fs[i].chunks) :
        HasBlock(fs[i].chunks[j], chunk_lines)

CommentBlock == Changed(<<"// a", "// ET_UNKNOWN">>, <<"// a EventType::kUnknown">>)

-----------------------------------------------------------------------------
(* Properties *)

\* C1: for every syntactically valid diff, printing the unfiltered parse tree
\* the way the output loop prints reproduces the input byte for byte.
C1_RoundTrip ==
    (pc = "parsed" /\ input \in ValidDiffs) => print_all(parsed) = input

\* C2: a Context block is displayed as its lines, each prefixed with one space
\* and followed by a line break; a Changed block as its removed lines prefixed
\* "-" followed by its added lines prefixed "+".
C2_ContextPrefixed ==
    pc = "parsed" =>
        \A i \in 1..Len(parsed) : \A j \in 1..Len(parsed[i].chunks) :
            \A k \in 1..Len(parsed[i].chunks[j].lineses) :
                LET cl == parsed[i].chunks[j].lineses[k] IN
                DisplayChunkLines(cl) =
                    IF cl.kind = "Context" THEN write_lines(" ", cl.lines)
                    ELSE write_lines("-", cl.removed) \o write_lines("+", cl.added)

\* C3: for the input of one file header, the hunk header "@@ -1,2 +1,2 @@",
\* the removed line "-  int x = ET_UNKNOWN;" and the added line
\* "+int x = EventType::kUnknown;", the file is elided and the output is empty.
C3_ExampleElided ==
    (pc = "done" /\ input = FileHeader \o HunkHeader \o IndentExample)
        => (files = <<>> /\ stdout = "")

\* C4: for every valid diff, the output parses again, and filtering that
\* second parse yields the tree of the first filtering.
C4_Idempotent ==
    (pc = "done" /\ input \in ValidDiffs) =>
        /\ ~panicked(parse(stdout))
        /\ filter_files(parse(stdout)) = files

\* C5: a parsed hunk is in the filtered tree iff one of its Changed blocks
\* survived the per-block decision, a parsed file iff one of its hunks is; the
\* order is kept, and every hunk of the output holds a Changed block.
C5_ElisionCascade ==
    Filtered =>
        /\ Len(files) = FileRank(Len(parsed))
        /\ \A i \in 1..Len(parsed) : FilePresent(parsed[i]) =>
              /\ files[FileRank(i)].header = parsed[i].header
              /\ Len(files[FileRank(i)].chunks) = HunkRank(i, Len(parsed[i].chunks))
              /\ \A j \in 1..Len(parsed[i].chunks) :
                    HunkPresent(parsed[i].chunks[j]) =>
                        files[FileRank(i)].chunks[HunkRank(i, j)] =
                            [header  |-> parsed[i].chunks[j].header,
                             lineses |-> new_lineses(parsed[i].chunks[j].lineses)]
        /\ \A n \in 1..Len(files) :
              /\ files[n].chunks # <<>>
              /\ \A m \in 1..Len(files[n].chunks) :
                    \E k \in 1..Len(files[n].chunks[m].lineses) :
                        files[n].chunks[m].lineses[k].kind = "Changed"

\* A hunk with a Context block and a Changed block, all of whose Changed
\* blocks were elided, is gone from the finished run, and its file with it.
C5_Witness ==
    /\ pc = "done"
    /\ Len(files) < Len(parsed)
    /\ \E i \in 1..Len(parsed) : \E j \in 1..Len(parsed[i].chunks) :
          /\ ~FilePresent(parsed[i])
          /\ \E k \in 1..Len(parsed[i].chunks[j].lineses) :
                parsed[i].chunks[j].lineses[k].kind = "Context"
          /\ \E k \in 1..Len(parsed[i].chunks[j].lineses) :
                parsed[i].chunks[j].lineses[k].kind = "Changed"

\* C6: the filter keeps every Changed block whose removed list or added list
\* is empty, so the pure blocks of a surviving hunk are all in the output, in
\* order and unchanged.
C6_PureKept ==
    Filtered =>
        \A i \in 1..Len(parsed) : \A j \in 1..Len(parsed[i].chunks) :
            /\ \A k \in 1..Len(parsed[i].chunks[j].lineses) :
                  IsPure(parsed[i].chunks[j].lineses[k])
                      => keep_chunk_lines(parsed[i].chunks[j].lineses[k])
            /\ HunkPresent(parsed[i].chunks[j]) =>
                  /\ FileRank(i) <= Len(files)
                  /\ HunkRank(i, j) <= Len(files[FileRank(i)].chunks)
                  /\ PureBlocks(files[FileRank(i)].chunks[HunkRank(i, j)].lineses)
                         = PureBlocks(parsed[i].chunks[j].lineses)
                  /\ pc = "done" => stdout = print_all(files)

\* A finished run that printed a hunk holding a pure insertion and a pure
\* deletion.
C6_Witness ==
    /\ pc = "done"
    /\ stdout # ""
    /\ \E n \in 1..Len(files) : \E m \in 1..Len(files[n].chunks) :
          /\ \E k \in 1..Len(files[n].chunks[m].lineses) :
                /\ files[n].chunks[m].lineses[k].kind = "Changed"
                /\ files[n].chunks[m].lineses[k].removed = <<>>
          /\ \E k \in 1..Len(files[n].chunks[m].lineses) :
                /\ files[n].chunks[m].lineses[k].kind = "Changed"
                /\ files[n].chunks[m].lineses[k].added = <<>>

\* C7: if a line of a hunk's content begins with a character that is none of
\* space, "-", "+" and the no-newline marker, the run never gets past the
\* parse stage and nothing is ever written.
C7_FatalOnBadTag ==
    HasBadTag(input) => (pc \in {"read", "panicked"} /\ stdout = "")

\* The run panicked on a bad line that comes after a good block of a hunk.
C7_Witness ==
    /\ pc = "panicked"
    /\ input = FileHeader \o HunkHeader \o BlankAdded \o BadTag
    /\ HasBadTag(input)
    /\ stdout = ""

\* C8: a hunk line "\ No newline at end of file" directly after a context,
\* removed or added line is accepted: the parse succeeds.
C8_MarkerAccepted == input \in MarkedDiffs => pc # "panicked"

\* C9: the whole table, applied in table order to the `before` of any one
\* rule, yields that rule's `after`; ET_GESTURE_TAP_DOWN becomes
\* EventType::kGestureTapDown.
C9_TableOrder ==
    rule > Len(REPLACEMENTS) =>
        /\ \A k \in 1..Len(REPLACEMENTS) :
              removed_text = REPLACEMENTS[k].before => current = REPLACEMENTS[k].after
        /\ removed_text = "ET_GESTURE_TAP_DOWN" => current = "EventType::kGestureTapDown"
        /\ removed_text = "ET_SCROLL_FLING_START" => current = "EventType::kScrollFlingStart"

\* The fold has run over ET_GESTURE_TAP_DOWN.
C9_Witness ==
    /\ rule > Len(REPLACEMENTS)
    /\ removed_text = "ET_GESTURE_TAP_DOWN"
    /\ current = "EventType::kGestureTapDown"

\* C10: canonicalization strips a leading "//" and one following space from
\* every line before the lines are joined, so the block with removed lines
\* "// a", "// ET_UNKNOWN" and added line "// a EventType::kUnknown" is
\* dropped as noise.
C10_CommentReflowDropped ==
    (Filtered /\ InTree(parsed, CommentBlock)) =>
        /\ canonical_text(CommentBlock.removed) = "a ET_UNKNOWN"
        /\ canonical_text(CommentBlock.added) = "a EventType::kUnknown"
        /\ ~InTree(files, CommentBlock)

====
